---------------------------- MODULE Spec2Model ----------------------------
(***************************************************************************)
(* The two sweep drivers of SingleModeVisualizations (plot_energy.py and   *)
(* plot_perturbations.py) as a state machine, together with the part of    *)
(* LinearAnalysis.SingleMode.SingleModeSolution they use.                  *)
(*                                                                         *)
(* Number representation                                                   *)
(*   mode numbers Nx      tenths            (Nx = 2.0  is 20)              *)
(*   Mach numbers M1      hundredths        (M1 = 1.75 is 175)             *)
(*   gamma, epsilon_k, R, M2^2   exact rationals <<num, den>>              *)
(*   lengths (x1, dx, max_delta_xs, ...)   millionths of a length unit     *)
(*   phases               units of pi/12   (24 units to the turn)          *)
(***************************************************************************)
EXTENDS Integers, Sequences, FiniteSets

VARIABLES driver, normalize, i, j, pc, args, sim, nextId,
          x1, y1, dx, dy, divisor, branch, t_arg, max_delta_xs, t,
          zs, plotted, saved, error

vars == <<driver, normalize, i, j, pc, args, sim, nextId,
          x1, y1, dx, dy, divisor, branch, t_arg, max_delta_xs, t,
          zs, plotted, saved, error>>

-----------------------------------------------------------------------------
(* Bounds of the model *)

\* domain lengths Lx, Ly range over 1..MaxL
MaxL == 2
\* 6*omega^2 ranges over 1..MaxOmega (omega = 1 is 6)
MaxOmega == 6
\* the phase constant phi ranges over 0..MaxPhi units of pi/12
MaxPhi == 1
\* the displacement amplitude outside the closed-form regime: 1..MaxAmp thousandths
MaxAmp == 1
\* probed Mach numbers: quarters 1..MaxM1Q (0.25 .. 2.0)
MaxM1Q == 8
\* probed heat-capacity ratios: thirds 1..MaxGamma3 (1/3 .. 5/3)
MaxGamma3 == 5
\* probed post-shock Mach numbers squared: eighths 1..MaxM2sq8
MaxM2sq8 == 12
\* probed transverse wavenumbers 1..MaxKy
MaxKy == 3

-----------------------------------------------------------------------------
(* Fixed parameters and sweeps of the drivers *)

Ny == 20
epsilon_k == <<1, 10>>
gamma == <<5, 3>>
ratios == <<0, 1, 2, 3, 4, 5, 6, 7, 8, 9, 10, 11, 12, 13>>

NxsEnergy == [k \in 1..Len(ratios) |-> ratios[k] * Ny]

M1sEnergyWithSonic == <<100, 225, 275>>

M1sEnergy == <<175, 225, 275>>

NxsPerturbations == <<2 * Ny>>

M1sPerturbations == <<175>>

Nxs(d) == IF d = "energy" THEN NxsEnergy ELSE NxsPerturbations

M1s(d) == IF d = "energy" THEN M1sEnergy ELSE M1sPerturbations

GridCells(d) == IF d = "energy" THEN 50 ELSE 100

-----------------------------------------------------------------------------
(* Arithmetic helpers *)

Abs(n) == IF n < 0 THEN 0 - n ELSE n

\* math.sqrt on a non-negative fixed-point argument: floor of the root
ISqrt(n) == CHOOSE r \in 0..1000 : r * r <= n /\ n < (r + 1) * (r + 1)

\* cos in thousandths at k units of pi/12
CosQuarter == <<1000, 966, 866, 707, 500, 259, 0>>

Cos(k) ==
    LET m == (k + 48) % 24
        h == IF m > 12 THEN 24 - m ELSE m
    IN  IF h <= 6 THEN CosQuarter[h + 1] ELSE 0 - CosQuarter[(12 - h) + 1]

Phases == 0..23


-----------------------------------------------------------------------------
(* SingleModeSolution: construction *)

NoSim == [status |-> "none", id |-> 0]

InvalidConfiguration(a) ==
    \/ a.M1 <= 100
    \/ (a.Nx = 0 /\ a.Ny = 0)
    \/ a.gamma[1] <= a.gamma[2]

\* Rankine-Hugoniot post-shock Mach number squared, <<num, den>>, M1 in hundredths
M2Squared(M1, g) ==
    <<(g[1] - g[2]) * M1 * M1 + 2 * g[2] * 10000,
      2 * g[1] * M1 * M1 - (g[1] - g[2]) * 10000>>

\* Rankine-Hugoniot density ratio rho2/rho1, <<num, den>>
DensityRatio(M1, g) ==
    <<(g[1] + g[2]) * M1 * M1,
      (g[1] - g[2]) * M1 * M1 + 2 * g[2] * 10000>>

\* transverse wavenumber of mode number n (units of 2 pi per domain length)
Wavenumber(n) == n

\* eps * R * M2^2 / (ky * sqrt(1 - M2^2)) in millionths, for M2^2 < 1 and ky # 0
ClosedFormValue(eps, R, M2sq, ky) ==
    LET RM == (1000 * R[1]) \div R[2]
        M2sqM == (1000 * M2sq[1]) \div M2sq[2]
        root == ISqrt(1000 * (1000 - M2sqM))
    IN  IF ky * root = 0 THEN 0
        ELSE (((eps[1] * RM * M2sqM) \div (eps[2] * ky)) * 1000) \div root

\* The regime flag: a zero wave angle (Nx = 0) lies below every critical angle
RegimeChoices(a) == IF a.Nx = 0 THEN {TRUE} ELSE BOOLEAN

\* The amplitude of the shock displacement
DisplacementAmplitude(a, lw, amp) ==
    IF lw /\ a.Nx = 0
    THEN ClosedFormValue(a.epsilon_k, DensityRatio(a.M1, a.gamma),
                         M2Squared(a.M1, a.gamma), Wavenumber(a.Ny))
    ELSE amp * 1000

\* c collects what the derivation fixes and this model leaves open: the regime,
\* 6*omega^2 (field omega), phi, the amplitude and the domain lengths.
SingleModeSolution(a, id, c) ==
    IF InvalidConfiguration(a)
    THEN [status |-> "ConfigurationError", id |-> id]
    ELSE [status |-> "ok", id |-> id,
          Nx |-> a.Nx, Ny |-> a.Ny, epsilon_k |-> a.epsilon_k, rho1 |-> 1,
          Lx |-> c.Lx, Ly |-> c.Ly,
          M2sq |-> M2Squared(a.M1, a.gamma),
          R |-> DensityRatio(a.M1, a.gamma),
          longwavelength |-> c.lw,
          omega |-> c.omega, phi |-> c.phi,
          ky |-> Wavenumber(a.Ny),
          amp |-> DisplacementAmplitude(a, c.lw, c.amp)]

Choices(a) ==
    [lw : RegimeChoices(a), omega : 1..MaxOmega, phi : 0..MaxPhi,
     amp : 1..MaxAmp, Lx : 1..MaxL, Ly : 1..MaxL]

-----------------------------------------------------------------------------
(* SingleModeSolution: evaluators *)

\* the phase omega*t at which |Re delta_xs| is largest
ThetaMax(s) == IF s.longwavelength THEN s.phi ELSE 6

\* Re(delta_xs(t, y)) in millionths, at combined phase ph = omega*t + ky*y
ReDeltaXs(s, ph) == (s.amp * Cos(ph - ThetaMax(s))) \div 1000

\* dtype of what each evaluator returns
EvaluatorKind(name) ==
    IF name \in {"delta_KE", "delta_TE"} THEN "real" ELSE "complex"

\* numpy.real
NpReal(kind) == "real"

\* product of a real scalar and an array
Scaled(kind) == kind

-----------------------------------------------------------------------------
(* The drivers: helpers *)

IterArgs(d, ii, jj) ==
    [Nx |-> Nxs(d)[ii], Ny |-> Ny, M1 |-> M1s(d)[jj],
     epsilon_k |-> epsilon_k, gamma |-> gamma]

Unset == [kind |-> "unset", v |-> 0]

\* the mode number the plot domain is normalised by, <<num, den>>
NormalizingModeAlwaysNx(ny, nx) == <<nx, 10>>

NormalizingMode(ny, nx) == IF ny = 0 THEN <<nx, 10>> ELSE <<ny, 1>>

\* 2*L / mode, in millionths
PlotBound(L, mode) == (2 * L * 1000000 * mode[2]) \div mode[1]

\* sim.epsilon_k * sim.R * sim.M2**2 / (sim.ky * math.sqrt(1 - sim.M2**2)):
\* the outcomes it can have. math.sqrt raises ValueError below zero. A zero
\* divisor raises ZeroDivisionError between Python floats and gives inf (with a
\* warning) as soon as one operand is a numpy scalar; which of the two the
\* attributes of sim are is not fixed by the drivers.
ClosedFormSwappedRoot(s) ==
    IF s.M2sq[1] < s.M2sq[2]
    THEN {[kind |-> "ValueError", v |-> 0]}
    ELSE {[kind |-> "value", v |-> 0]}

ClosedForm(s) ==
    IF s.M2sq[1] > s.M2sq[2]
    THEN {[kind |-> "ValueError", v |-> 0]}
    ELSE IF s.ky * (s.M2sq[2] - s.M2sq[1]) = 0
         THEN {[kind |-> "ZeroDivisionError", v |-> 0], [kind |-> "inf", v |-> 0]}
         ELSE {[kind |-> "value",
                v |-> ClosedFormValue(s.epsilon_k, s.R, s.M2sq, s.ky)]}

\* the phase omega*t of the time  sim.phi / sim.omega
PhaseOfPhiOverOmega(s) == s.phi

\* the phase omega*t of the time  (pi / 2) * sim.omega : (pi/2)*omega^2
PhaseOfHalfPiTimesOmega(s) == (6 * s.omega) \div 6

Branch(s) ==
    IF s.longwavelength
    THEN (IF s.Nx = 0 THEN "closed" ELSE "long")
    ELSE "propagating"

\* the fields handed to the plotting layer, by dtype
FieldKinds(d, norm) ==
    IF d = "energy"
    THEN <<EvaluatorKind("delta_KE"), EvaluatorKind("delta_TE"),
           Scaled(NpReal(EvaluatorKind("delta_rho_rho1")))>>
    ELSE IF norm
         THEN <<NpReal(EvaluatorKind("tilde_p")), NpReal(EvaluatorKind("tilde_rho")),
                NpReal(EvaluatorKind("tilde_vx")), NpReal(EvaluatorKind("tilde_vy"))>>
         ELSE <<EvaluatorKind("delta_p"), EvaluatorKind("delta_rho"),
                EvaluatorKind("delta_vx"), EvaluatorKind("delta_vy")>>

RECURSIVE Pow10(_)
Pow10(k) == IF k <= 0 THEN 1 ELSE 10 * Pow10(k - 1)

\* "{0:.<n>g}".format(q / 1000): q rounded to n significant digits (ties to even);
\* the digits printed are those of the rounded value
FmtG(q, n) ==
    IF q = 0 THEN 0
    ELSE LET d == CHOOSE k \in 1..10 : Pow10(k - 1) <= q /\ q < Pow10(k)
             step == Pow10(d - n)
             lo == (q \div step) * step
             rem == q - lo
         IN  IF 2 * rem > step \/ (2 * rem = step /\ (q \div step) % 2 = 1)
             THEN lo + step
             ELSE lo

\* "{0:.2g}".format(Nx / Ny)
RatioLabel1g(nx, ny) == FmtG((nx * 100) \div ny, 1)

RatioLabel(nx, ny) == FmtG((nx * 100) \div ny, 2)

\* str(float): the shortest repr that reads back as the same float
StrFloat(v) == <<"repr", v>>

Directory(d, norm) ==
    IF d = "energy" THEN "plots/energy/"
    ELSE IF norm THEN "plots/perturbations_normalized/"
         ELSE "plots/perturbations/"

Savename(d, norm, s, a) ==
    IF s.Ny = 0
    THEN <<Directory(d, norm), "Ny-0--Nx-", StrFloat(a.Nx), "--M1-", StrFloat(a.M1), ".png">>
    ELSE <<Directory(d, norm), "ratio-", RatioLabel(a.Nx, a.Ny), "--M1-", StrFloat(a.M1), ".png">>

-----------------------------------------------------------------------------
(* The drivers: one sweep iteration, step by step *)

Init ==
    /\ driver \in {"energy", "perturbations"}
    /\ normalize \in (IF driver = "perturbations" THEN BOOLEAN ELSE {TRUE})
    /\ i = 1 /\ j = 1
    /\ pc = "construct"
    /\ args = IterArgs(driver, 1, 1)
    /\ sim = NoSim
    /\ nextId = 1
    /\ x1 = 0 /\ y1 = 0 /\ dx = 0 /\ dy = 0 /\ divisor = <<0, 1>>
    /\ branch = "none" /\ t_arg = 0
    /\ max_delta_xs = Unset /\ t = Unset
    /\ zs = <<>> /\ plotted = <<>> /\ saved = <<>>
    /\ error = "none"

\* sim = SingleModeSolution(Nx, Ny, M1, epsilon_k=epsilon_k, gamma=gamma)
Construct ==
    /\ pc = "construct"
    /\ \E c \in Choices(args) : sim' = SingleModeSolution(args, nextId, c)
    /\ nextId' = nextId + 1
    /\ pc' = IF sim'.status = "ok" THEN "domain" ELSE "raised"
    /\ error' = IF sim'.status = "ok" THEN "none" ELSE sim'.status
    /\ UNCHANGED <<driver, normalize, i, j, args, x1, y1, dx, dy, divisor,
                   branch, t_arg, max_delta_xs, t, zs, plotted, saved>>

\* x0, x1, y0, y1, dx, dy
Domain ==
    /\ pc = "domain"
    /\ divisor' = NormalizingMode(args.Ny, args.Nx)
    /\ IF divisor'[1] = 0
       THEN /\ pc' = "raised" /\ error' = "ZeroDivisionError"
            /\ UNCHANGED <<x1, y1, dx, dy>>
       ELSE /\ x1' = PlotBound(sim.Lx, divisor')
            /\ y1' = PlotBound(sim.Ly, divisor')
            /\ dx' = (x1' - 0) \div GridCells(driver)
            /\ dy' = (y1' - 0) \div GridCells(driver)
            /\ pc' = "time" /\ UNCHANGED error
    /\ UNCHANGED <<driver, normalize, i, j, args, sim, nextId, branch, t_arg,
                   max_delta_xs, t, zs, plotted, saved>>

\* plot_energy: max_delta_xs and t = (x1 + max_delta_xs) / (sim.M2 * sim.a2)
\* plot_perturbations: xs = (2/3) * x1 and t = xs / (sim.M2 * sim.a2)
\* t is kept as the distance sim.M2 * sim.a2 * t the unperturbed front has gone.
ComputeTime ==
    /\ pc = "time"
    /\ IF driver = "energy"
       THEN /\ branch' = Branch(sim)
            /\ t_arg' = IF branch' = "long" THEN PhaseOfPhiOverOmega(sim)
                        ELSE IF branch' = "propagating" THEN PhaseOfHalfPiTimesOmega(sim)
                        ELSE 0
            /\ \E m \in (IF branch' = "closed" THEN ClosedForm(sim)
                        ELSE {[kind |-> "value", v |-> Abs(ReDeltaXs(sim, t_arg'))]}) :
                   IF m.kind \in {"value", "inf"}
                   THEN /\ max_delta_xs' = m
                        /\ t' = [kind |-> m.kind, v |-> x1 + m.v]
                        /\ pc' = "fields" /\ UNCHANGED error
                   ELSE /\ pc' = "raised" /\ error' = m.kind
                        /\ UNCHANGED <<max_delta_xs, t>>
       ELSE /\ t' = [kind |-> "value", v |-> (2 * x1) \div 3]
            /\ pc' = "fields"
            /\ UNCHANGED <<branch, t_arg, max_delta_xs, error>>
    /\ UNCHANGED <<driver, normalize, i, j, args, sim, nextId, x1, y1, dx, dy,
                   divisor, zs, plotted, saved>>

\* zs = [...]; zs[i] = zs[i][:-1, :-1]
ComputeFieldsScalingInPlace ==
    /\ pc = "fields"
    /\ zs' = FieldKinds(driver, normalize)
    /\ sim' = [sim EXCEPT !.rho1 = 2 * @]
    /\ pc' = "plot"
    /\ UNCHANGED <<driver, normalize, i, j, args, nextId, x1, y1, dx, dy,
                   divisor, branch, t_arg, max_delta_xs, t, plotted, saved, error>>

ComputeFields ==
    /\ pc = "fields"
    /\ zs' = FieldKinds(driver, normalize)
    /\ pc' = "plot"
    /\ UNCHANGED <<driver, normalize, i, j, args, sim, nextId, x1, y1, dx, dy,
                   divisor, branch, t_arg, max_delta_xs, t, plotted, saved, error>>

\* levels from z.min(), z.max(); ax.contourf(..., z, ...) for every z of zs
Plot ==
    /\ pc = "plot"
    /\ plotted' = zs
    /\ pc' = "save"
    /\ UNCHANGED <<driver, normalize, i, j, args, sim, nextId, x1, y1, dx, dy,
                   divisor, branch, t_arg, max_delta_xs, t, zs, saved, error>>

\* savename; plt.savefig(savename); plt.close(); then the loops step on.
\* What the iteration bound (sim, the domain, t, zs) is dead from here on: the
\* next iteration assigns each name before reading it. The model drops them.
Save ==
    /\ pc = "save"
    /\ saved' = Append(saved, Savename(driver, normalize, sim, args))
    /\ IF j < Len(M1s(driver))
       THEN /\ j' = j + 1 /\ i' = i
            /\ args' = IterArgs(driver, i, j + 1) /\ pc' = "construct"
       ELSE IF i < Len(Nxs(driver))
            THEN /\ i' = i + 1 /\ j' = 1
                 /\ args' = IterArgs(driver, i + 1, 1) /\ pc' = "construct"
            ELSE /\ pc' = "done" /\ UNCHANGED <<i, j, args>>
    /\ sim' = NoSim
    /\ x1' = 0 /\ y1' = 0 /\ dx' = 0 /\ dy' = 0 /\ divisor' = <<0, 1>>
    /\ branch' = "none" /\ t_arg' = 0
    /\ max_delta_xs' = Unset /\ t' = Unset
    /\ zs' = <<>> /\ plotted' = <<>>
    /\ UNCHANGED <<driver, normalize, nextId, error>>

Next == Construct \/ Domain \/ ComputeTime \/ ComputeFields \/ Plot \/ Save

Spec == Init /\ [][Next]_vars

-----------------------------------------------------------------------------
(* Construction and the time computation over a grid of configurations *)

Drivers == {"energy", "perturbations"}

SweepArgs ==
    {IterArgs(d, ii, jj) : <<d, ii, jj>> \in
        {w \in Drivers \X (1..Len(ratios)) \X (1..3) :
            w[2] <= Len(Nxs(w[1])) /\ w[3] <= Len(M1s(w[1]))}}

ProbeArgs ==
    [Nx : {0, 2 * Ny}, Ny : {0, Ny}, M1 : {25 * q : q \in 1..MaxM1Q},
     epsilon_k : {epsilon_k}, gamma : {<<g, 3>> : g \in 1..MaxGamma3}]

InitCtor ==
    /\ driver = "energy" /\ normalize = TRUE
    /\ i = 1 /\ j = 1
    /\ pc = "construct"
    /\ args \in ProbeArgs \cup SweepArgs
    /\ sim = NoSim
    /\ nextId = 1
    /\ x1 = 0 /\ y1 = 0 /\ dx = 0 /\ dy = 0 /\ divisor = <<0, 1>>
    /\ branch = "none" /\ t_arg = 0
    /\ max_delta_xs = Unset /\ t = Unset
    /\ zs = <<>> /\ plotted = <<>> /\ saved = <<>>
    /\ error = "none"

NextCtor == Construct \/ Domain \/ ComputeTime

SpecCtor == InitCtor /\ [][NextCtor]_vars

-----------------------------------------------------------------------------
(* The closed-form branch over a grid of post-shock Mach numbers *)

ProbeR == {<<2, 1>>, <<3, 1>>}

ProbeSims ==
    [status : {"ok"}, id : {1}, Nx : {0}, Ny : {Ny}, epsilon_k : {epsilon_k},
     rho1 : {1}, Lx : {1}, Ly : {1},
     M2sq : {<<n, 8>> : n \in 1..MaxM2sq8}, R : ProbeR,
     longwavelength : {TRUE}, omega : {1}, phi : {0},
     ky : 1..MaxKy, amp : {0}]

InitCF ==
    /\ driver = "energy" /\ normalize = TRUE
    /\ i = 1 /\ j = 1
    /\ pc = "time"
    /\ args = IterArgs("energy", 1, 1)
    /\ sim \in ProbeSims
    /\ nextId = 2
    /\ divisor = NormalizingMode(Ny, 0)
    /\ x1 = PlotBound(1, divisor) /\ y1 = PlotBound(1, divisor)
    /\ dx = x1 \div GridCells("energy") /\ dy = y1 \div GridCells("energy")
    /\ branch = "none" /\ t_arg = 0
    /\ max_delta_xs = Unset /\ t = Unset
    /\ zs = <<>> /\ plotted = <<>> /\ saved = <<>>
    /\ error = "none"

NextCF == ComputeTime

SpecCF == InitCF /\ [][NextCF]_vars

-----------------------------------------------------------------------------
(* Properties *)

TimeKnown == pc \in {"fields", "plot", "save"}

C5_PostShockSubsonic ==
    /\ sim.status = "ok"
        => (0 < sim.M2sq[1] /\ sim.M2sq[1] < sim.M2sq[2])
    /\ branch = "closed"
        => (error = "none" /\ pc = "fields" /\ max_delta_xs.kind = "value"
            /\ max_delta_xs.v > 0)

C5_Witness ==
    /\ branch = "closed" /\ pc = "fields"
    /\ args.Nx = 0 /\ args.Ny = 20 /\ args.M1 = 175 /\ args.gamma = <<5, 3>>
    /\ max_delta_xs.kind = "value"

C9_PlottedReal ==
    pc = "save" => \A k \in 1..Len(plotted) : plotted[k] = "real"

\* C10: no two iterations of a run save under the same name, and each
\* finished iteration has saved exactly one figure.
C10_SavenamesDistinct ==
    /\ \A a, b \in 1..Len(saved) : a # b => saved[a] # saved[b]
    /\ Len(saved) = (i - 1) * Len(M1s(driver)) + (j - 1)
                    + (IF pc = "done" THEN 1 ELSE 0)

C10_Witness ==
    pc = "done" /\ driver = "energy" /\ Len(saved) = Len(ratios) * Len(M1sEnergy)

=============================================================================
